---- MODULE Spec2Model ----
(***************************************************************************)
(* Model of the contacts service (src/src/contacts/contacts.py): the       *)
(* add-contact and get-contacts handlers, the field validator, the         *)
(* authorization check and the contacts table.                             *)
(*                                                                         *)
(* Strings are sequences of one-character strings, so that the regular     *)
(* expressions and the sanitizer are computed character by character.      *)
(***************************************************************************)
EXTENDS Naturals, Integers, Sequences, FiniteSets, Bags, TLC

VARIABLES store, inflight, resp

vars == <<store, inflight, resp>>

(***************************************************************************)
(* Bounds of the model.                                                    *)
(***************************************************************************)
\* rows the contacts table may hold; a request that passed its checks goes
\* on only while the table has room for it and for the requests in flight
MaxStore == 2

(***************************************************************************)
(* Characters and strings.                                                 *)
(***************************************************************************)
Digit == {"0", "1", "2", "3", "4", "5", "6", "7", "8", "9"}

Lower == {"a", "b", "c", "d", "e", "f", "g", "h", "i", "j", "k", "l", "m",
          "n", "o", "p", "q", "r", "s", "t", "u", "v", "w", "x", "y", "z"}

Upper == {"A", "B", "C", "D", "E", "F", "G", "H", "I", "J", "K", "L", "M",
          "N", "O", "P", "Q", "R", "S", "T", "U", "V", "W", "X", "Y", "Z"}

\* the class [0-9a-zA-Z]
Alnum == Digit \cup Lower \cup Upper

\* the class [0-9a-zA-Z ]
AlnumSpace == Alnum \cup {" "}

Newline == "\n"

\* the string of n copies of the character ch
Rep(ch, n) == [i \in 1..n |-> ch]

(***************************************************************************)
(* Regular expressions of _validate_new_contact, as re.match computes      *)
(* them.                                                                   *)
(***************************************************************************)
\* digits of an account number: the {10} of r'\A[0-9]{10}\Z'
AcctLen == 10
\* digits of a routing number: the {9} of r'\A[0-9]{9}\Z'
RoutingLen == 9
\* upper repetition count of the label's tail: the {0,29} of the label pattern
LabelTailMax == 29

\* re.match(r'\A[0-9]{n}\Z', s): \Z matches at the very end of s only
MatchDigits(s, n) ==
    /\ Len(s) = n
    /\ \A i \in 1..n : s[i] \in Digit

\* the position reached after pos characters is where '$' matches: the end
\* of s, or just before a newline that is the last character of s
AtDollar(s, pos) ==
    \/ pos = Len(s)
    \/ pos = Len(s) - 1 /\ s[Len(s)] = Newline

\* re.match(r'^[0-9a-zA-Z][0-9a-zA-Z ]{0,29}$', s): one alphanumeric, then k
\* characters of the tail class for some k in 0..29, then '$'
MatchLabel(s) ==
    /\ Len(s) >= 1
    /\ s[1] \in Alnum
    /\ \E k \in 0..LabelTailMax :
          /\ 1 + k <= Len(s)
          /\ AtDollar(s, 1 + k)
          /\ \A i \in 2..(1 + k) : s[i] \in AlnumSpace

(***************************************************************************)
(* Configuration and identities.                                           *)
(***************************************************************************)
\* APP.config['LOCAL_ROUTING'], fixed at startup
LOCAL_ROUTING == Rep("8", RoutingLen)

ExtRouting == Rep("9", RoutingLen)

Users == {"alice", "bob"}

Acct1 == Rep("1", AcctLen)

Acct2 == Rep("2", AcctLen)

\* the account number the token of each user carries (claim 'acct')
AcctOf(u) == IF u = "alice" THEN Acct1 ELSE Acct2

\* a token jwt.decode rejects
InvalidToken == [user |-> "", acct |-> <<>>, valid |-> FALSE]

\* the tokens jwt.decode accepts, with their payload
ValidTokens == {[user |-> u, acct |-> AcctOf(u), valid |-> TRUE] : u \in Users}

Tokens == ValidTokens \cup {InvalidToken}

(***************************************************************************)
(* Messages of the responses.                                              *)
(***************************************************************************)
Ok == "ok"

MissingField == "missing required field(s)"

InvalidAccountNumber == "invalid account number"

InvalidRoutingNumber == "invalid routing number"

InvalidLabel == "invalid account label"

SelfReference == "may not add yourself to contacts"

DuplicateAccount == "account already exists as a contact"

DuplicateLabel == "contact already exists with that label"

AuthDenied == "authentication denied"

FailedToAdd == "failed to add contact"

FailedToRetrieve == "failed to retrieve contacts list"

StoreError == "SQLAlchemyError"

(***************************************************************************)
(* Sanitizer: bleach.clean escapes the markup characters of a string.      *)
(***************************************************************************)
EscapeChar(ch) ==
    IF ch = "<" THEN <<"&", "l", "t", ";">>
    ELSE IF ch = ">" THEN <<"&", "g", "t", ";">>
    ELSE IF ch = "&" THEN <<"&", "a", "m", "p", ";">>
    ELSE <<ch>>

Markup == {"<", ">", "&"}

RECURSIVE CleanFrom(_, _)
CleanFrom(s, i) ==
    IF i > Len(s) THEN <<>> ELSE EscapeChar(s[i]) \o CleanFrom(s, i + 1)

\* a string without markup characters comes back as it is
Clean(s) == IF \A i \in 1..Len(s) : s[i] \notin Markup THEN s ELSE CleanFrom(s, 1)

StringFields == {"label", "account_num", "routing_num"}

Fields == {"label", "account_num", "routing_num", "is_external"}

\* req = {k: (bleach.clean(v) if isinstance(v, str) else v) for k, v in ...}
CleanReq(raw) ==
    [k \in DOMAIN raw |-> IF k \in StringFields THEN Clean(raw[k]) ELSE raw[k]]

(***************************************************************************)
(* _validate_new_contact: the message of the UserWarning raised, or Ok.    *)
(***************************************************************************)
ValidateLabelFirst(req) ==
    IF \E f \in Fields : f \notin DOMAIN req THEN MissingField
    ELSE IF ~MatchLabel(req["label"]) THEN InvalidLabel
    ELSE IF ~MatchDigits(req["account_num"], AcctLen) THEN InvalidAccountNumber
    ELSE IF ~MatchDigits(req["routing_num"], RoutingLen) THEN InvalidRoutingNumber
    ELSE IF req["is_external"] /\ req["routing_num"] = LOCAL_ROUTING
         THEN InvalidRoutingNumber
    ELSE Ok

ValidateNoExternalRule(req) ==
    IF \E f \in Fields : f \notin DOMAIN req THEN MissingField
    ELSE IF ~MatchDigits(req["account_num"], AcctLen) THEN InvalidAccountNumber
    ELSE IF ~MatchDigits(req["routing_num"], RoutingLen) THEN InvalidRoutingNumber
    ELSE IF ~MatchLabel(req["label"]) THEN InvalidLabel
    ELSE Ok

ValidateNewContact(req) ==
    IF \E f \in Fields : f \notin DOMAIN req THEN MissingField
    ELSE IF ~MatchDigits(req["account_num"], AcctLen) THEN InvalidAccountNumber
    ELSE IF ~MatchDigits(req["routing_num"], RoutingLen) THEN InvalidRoutingNumber
    ELSE IF req["is_external"] /\ req["routing_num"] = LOCAL_ROUTING
         THEN InvalidRoutingNumber
    ELSE IF ~MatchLabel(req["label"]) THEN InvalidLabel
    ELSE Ok

(***************************************************************************)
(* _get_contacts: the rows of a username, in stored order, without the     *)
(* username column.                                                        *)
(***************************************************************************)
ContactOf(row) ==
    [label |-> row.label, account_num |-> row.account_num,
     routing_num |-> row.routing_num, is_external |-> row.is_external]

GetContacts(db, username) ==
    LET idx == {i \in 1..Len(db) : db[i].username = username}
        RECURSIVE Pick(_)
        Pick(i) == IF i > Len(db) THEN <<>>
                   ELSE IF i \in idx THEN <<ContactOf(db[i])>> \o Pick(i + 1)
                   ELSE Pick(i + 1)
    IN  Pick(1)

(***************************************************************************)
(* _check_contact_allowed.  The loop visits the fetched contacts in order  *)
(* and raises at the first contact that has the candidate's account and    *)
(* routing number or the candidate's label, the account test first.        *)
(***************************************************************************)
SamePair(contact, req) ==
    /\ contact.account_num = req.account_num
    /\ contact.routing_num = req.routing_num

SameLabel(contact, req) == contact.label = req.label

ScanNoAccountTest(contacts, req) ==
    IF \E i \in 1..Len(contacts) : SameLabel(contacts[i], req)
    THEN DuplicateLabel ELSE Ok

ScanNoLabelTest(contacts, req) ==
    IF \E i \in 1..Len(contacts) : SamePair(contacts[i], req)
    THEN DuplicateAccount ELSE Ok

ScanLabelTestFirst(contacts, req) ==
    LET hits == {i \in 1..Len(contacts) :
                    SamePair(contacts[i], req) \/ SameLabel(contacts[i], req)}
    IN  IF hits = {} THEN Ok
        ELSE LET first == CHOOSE i \in hits : \A j \in hits : i <= j
             IN  IF SameLabel(contacts[first], req) THEN DuplicateLabel
                 ELSE DuplicateAccount

\* the for loop of lines 150-156
RECURSIVE ScanContacts(_, _)
ScanContacts(contacts, req) ==
    IF contacts = <<>> THEN Ok
    ELSE IF SamePair(Head(contacts), req) THEN DuplicateAccount
    ELSE IF SameLabel(Head(contacts), req) THEN DuplicateLabel
    ELSE ScanContacts(Tail(contacts), req)

\* lines 145-147
IsSelf(accountid, req) ==
    /\ req["account_num"] = accountid
    /\ req["routing_num"] = LOCAL_ROUTING


CheckFetchesFirst(username, accountid, req, db, fetchOk) ==
    IF ~fetchOk
    THEN [result |-> StoreError, calls |-> <<"fetch:error">>]
    ELSE IF IsSelf(accountid, req)
    THEN [result |-> SelfReference, calls |-> <<"fetch:ok">>]
    ELSE [result |-> ScanContacts(GetContacts(db, username), req),
          calls |-> <<"fetch:ok">>]

CheckSwallowsStoreError(username, accountid, req, db, fetchOk) ==
    IF IsSelf(accountid, req)
    THEN [result |-> SelfReference, calls |-> <<>>]
    ELSE IF ~fetchOk
    THEN [result |-> Ok, calls |-> <<"fetch:error">>]
    ELSE [result |-> ScanContacts(GetContacts(db, username), req),
          calls |-> <<"fetch:ok">>]

\* the outcome of _check_contact_allowed with the gateway calls it made:
\* the contacts are fetched only after the self-reference test passed, and
\* a failing fetch raises SQLAlchemyError out of the function
CheckContactAllowed(username, accountid, req, db, fetchOk) ==
    IF IsSelf(accountid, req)
    THEN [result |-> SelfReference, calls |-> <<>>]
    ELSE IF ~fetchOk
    THEN [result |-> StoreError, calls |-> <<"fetch:error">>]
    ELSE [result |-> ScanContacts(GetContacts(db, username), req),
          calls |-> <<"fetch:ok">>]

(***************************************************************************)
(* _add_contact: the row inserted into the contacts table.                 *)
(***************************************************************************)
NewRowDropsExternal(username, contact) ==
    [username |-> username,
     label |-> contact["label"],
     account_num |-> contact["account_num"],
     routing_num |-> contact["routing_num"],
     is_external |-> FALSE]

NewRow(username, contact) ==
    [username |-> username,
     label |-> contact["label"],
     account_num |-> contact["account_num"],
     routing_num |-> contact["routing_num"],
     is_external |-> contact["is_external"]]

InsertRow(db, username, contact) == Append(db, NewRow(username, contact))

(***************************************************************************)
(* Responses.  Besides the status code and the message, a response records *)
(* the request it answers (the path username, the token's user, the        *)
(* sanitized body once it was parsed) and the gateway calls made for it.   *)
(***************************************************************************)
NoReq == [none |-> TRUE]

Response(op, status, msg, tok, username, req, calls, body) ==
    [op |-> op, status |-> status, msg |-> msg, tokuser |-> tok.user,
     username |-> username, req |-> req, calls |-> calls, body |-> body]

NoResponse ==
    Response("none", 0, Ok, InvalidToken, "", NoReq, <<>>, <<>>)

\* lines 92-100 of add_contact: the response of the except clause reached,
\* or status 0 when every check passed and the insert is next
Admit(tok, username, raw, db, fetchOk) ==
    IF ~tok.valid \/ username # tok.user
    THEN Response("add", 401, AuthDenied, tok, username, NoReq, <<>>, <<>>)
    ELSE LET req == CleanReq(raw)
             v == ValidateNewContact(req)
         IN  IF v # Ok
             THEN Response("add", 400, v, tok, username, req, <<>>, <<>>)
             ELSE LET a == CheckContactAllowed(username, tok.acct, req, db, fetchOk)
                  IN  IF a.result = StoreError
                      THEN Response("add", 500, FailedToAdd, tok, username, req,
                                    a.calls, <<>>)
                      ELSE IF a.result # Ok
                      THEN Response("add", 409, a.result, tok, username, req,
                                    a.calls, <<>>)
                      ELSE Response("add", 0, Ok, tok, username, req, a.calls, <<>>)

\* lines 102-103 and 111-113: the response after the insert was attempted
Inserted(a, insertOk) ==
    IF insertOk
    THEN [a EXCEPT !.status = 201, !.calls = Append(a.calls, "insert:ok")]
    ELSE [a EXCEPT !.status = 500, !.msg = FailedToAdd,
                   !.calls = Append(a.calls, "insert:error")]

(***************************************************************************)
(* Requests the model submits.                                             *)
(***************************************************************************)
Req(label, account_num, routing_num, is_external) ==
    [label |-> label, account_num |-> account_num,
     routing_num |-> routing_num, is_external |-> is_external]

LabelAl == <<"A", "l">>

\* the longest label the pattern accepts: one character and a full tail
LabelLong == Rep("a", LabelTailMax + 1)

ReqSet ==
    { Req(LabelAl, Acct2, LOCAL_ROUTING, FALSE),
      Req(LabelAl, Acct2, ExtRouting, TRUE),
      Req(LabelLong, Acct2, LOCAL_ROUTING, FALSE),
      Req(LabelLong, Acct1, ExtRouting, TRUE),
      Req(LabelAl, Acct1, LOCAL_ROUTING, FALSE),
      Req(LabelAl, Acct2, LOCAL_ROUTING, TRUE),
      Req(<<"A", "<">>, Acct2, LOCAL_ROUTING, FALSE),
      Req(LabelAl, Rep("1", AcctLen - 1), ExtRouting, FALSE),
      [label |-> LabelAl, account_num |-> Acct2, routing_num |-> ExtRouting] }

\* the requests concurrent workers are given: the ones that collide with
\* each other, the self-references and an external one with local routing
ConcReqSet ==
    { Req(LabelAl, Acct2, LOCAL_ROUTING, FALSE),
      Req(LabelAl, Acct2, ExtRouting, TRUE),
      Req(LabelLong, Acct2, LOCAL_ROUTING, FALSE),
      Req(LabelAl, Acct1, LOCAL_ROUTING, FALSE),
      Req(LabelAl, Acct2, LOCAL_ROUTING, TRUE) }

(***************************************************************************)
(* State.  store is the contacts table in insertion order; inflight is the *)
(* bag of add-contact requests that passed their checks and have not yet   *)
(* inserted (adm is what Admit returned, seen the number of rows the table *)
(* held when the request fetched its contacts); resp is the last response  *)
(* sent.                                                                   *)
(***************************************************************************)
Init ==
    /\ store = <<>>
    /\ inflight = EmptyBag
    /\ resp = NoResponse

(***************************************************************************)
(* add_contact run as one step (requests are serialized).                  *)
(***************************************************************************)
AddContact(tok, username, raw, fetchOk, insertOk) ==
    LET a == Admit(tok, username, raw, store, fetchOk)
    IN  /\ IF a.status # 0
           THEN /\ resp' = a
                /\ store' = store
           ELSE /\ resp' = Inserted(a, insertOk)
                /\ IF insertOk
                   THEN /\ Len(store) < MaxStore
                        /\ store' = InsertRow(store, username, a.req)
                   ELSE store' = store
        /\ UNCHANGED inflight

(***************************************************************************)
(* get_contacts.                                                           *)
(***************************************************************************)
GetContactsReq(tok, username, fetchOk) ==
    /\ resp' = IF ~tok.valid \/ username # tok.user
               THEN Response("get", 401, AuthDenied, tok, username, NoReq,
                             <<>>, <<>>)
               ELSE IF ~fetchOk
               THEN Response("get", 500, FailedToRetrieve, tok, username, NoReq,
                             <<"fetch:error">>, <<>>)
               ELSE Response("get", 200, Ok, tok, username, NoReq,
                             <<"fetch:ok">>, GetContacts(store, username))
    /\ UNCHANGED <<store, inflight>>

HandleAdd ==
    \E tok \in Tokens, username \in Users, raw \in ReqSet,
       fetchOk \in BOOLEAN, insertOk \in BOOLEAN :
        AddContact(tok, username, raw, fetchOk, insertOk)

HandleGet ==
    \E tok \in Tokens, username \in Users, fetchOk \in BOOLEAN :
        GetContactsReq(tok, username, fetchOk)

Next == HandleAdd \/ HandleGet

Spec == Init /\ [][Next]_vars

(***************************************************************************)
(* add_contact run by concurrent workers: the fetch and the checks are one *)
(* step, the insert is a later step, and nothing is held in between.       *)
(***************************************************************************)
CheckStep(tok, username, raw, fetchOk) ==
    LET a == Admit(tok, username, raw, store, fetchOk)
    IN  /\ IF a.status # 0
           THEN /\ resp' = a
                /\ inflight' = inflight
           ELSE /\ Len(store) + BagCardinality(inflight) < MaxStore
                /\ inflight' = inflight (+)
                                    SetToBag({[adm |-> a, seen |-> Len(store)]})
                /\ resp' = resp
        /\ UNCHANGED store

InsertStep(r, insertOk) ==
    /\ BagIn(r, inflight)
    /\ inflight' = inflight (-) SetToBag({r})
    /\ resp' = Inserted(r.adm, insertOk)
    /\ store' = IF insertOk THEN InsertRow(store, r.adm.username, r.adm.req)
                ELSE store

WorkerCheck ==
    \E tok \in Tokens, username \in Users, raw \in ConcReqSet,
       fetchOk \in BOOLEAN :
        CheckStep(tok, username, raw, fetchOk)

WorkerInsert ==
    \E r \in BagToSet(inflight), insertOk \in BOOLEAN : InsertStep(r, insertOk)

NextConc == WorkerCheck \/ WorkerInsert

SpecConc == Init /\ [][NextConc]_vars


(***************************************************************************)
(* _validate_new_contact on its own, over a wide set of candidates.        *)
(***************************************************************************)
WideLabels ==
    { LabelAl, LabelLong, Rep("a", LabelTailMax + 2), <<>>, <<" ", "a">>,
      <<"a", " ", "b">>, <<"a", "!">>, <<"a", Newline>>,
      LabelLong \o <<Newline>>, <<"a", Newline, Newline>> }

WideAccounts ==
    { Acct1, Rep("1", AcctLen - 1), Rep("1", AcctLen + 1),
      Rep("1", AcctLen - 1) \o <<"a">>, Acct1 \o <<Newline>> }

WideRoutings ==
    { LOCAL_ROUTING, ExtRouting, Rep("8", RoutingLen - 1),
      Rep("8", RoutingLen - 1) \o <<"x">>, LOCAL_ROUTING \o <<Newline>> }

WideReqs ==
    LET full == { Req(l, a, r, e) : l \in WideLabels, a \in WideAccounts,
                                    r \in WideRoutings, e \in BOOLEAN }
        base == { Req(l, a, LOCAL_ROUTING, TRUE) :
                    l \in {LabelAl, <<"a", "!">>},
                    a \in {Acct1, Rep("1", AcctLen - 1)} }
        part == { [f \in D |-> b[f]] : b \in base, D \in (SUBSET Fields) \ {Fields} }
    IN  full \cup part

ValidateCall(req) ==
    /\ resp' = Response("validate", 0, ValidateNewContact(req), InvalidToken, "",
                        req, <<>>, <<>>)
    /\ UNCHANGED <<store, inflight>>

NextValidate == \E req \in WideReqs : ValidateCall(req)

SpecValidate == Init /\ [][NextValidate]_vars

(***************************************************************************)
(* Vocabulary of the properties.                                           *)
(***************************************************************************)
\* the positions of the table that hold contacts of username u
RowsOf(u) == {i \in 1..Len(store) : store[i].username = u}

\* s is exactly n ASCII digits
IsDigitString(s, n) == Len(s) = n /\ {s[i] : i \in 1..Len(s)} \subseteq Digit

\* s without the one line feed that may end it
LabelCore(s) ==
    IF Len(s) > 0 /\ s[Len(s)] = Newline THEN SubSeq(s, 1, Len(s) - 1) ELSE s

\* s is accepted by the label pattern
LabelPatternOk(s) ==
    LET c == LabelCore(s)
    IN  /\ Len(c) \in 1..(LabelTailMax + 1)
        /\ c[1] \in Alnum
        /\ \A i \in 2..Len(c) : c[i] \in AlnumSpace

\* check k of the field validator fails on req
Fails(k, req) ==
    CASE k = 1 -> ~(Fields \subseteq DOMAIN req)
      [] k = 2 -> "account_num" \in DOMAIN req
                  /\ ~IsDigitString(req.account_num, AcctLen)
      [] k = 3 -> "routing_num" \in DOMAIN req
                  /\ ~IsDigitString(req.routing_num, RoutingLen)
      [] k = 4 -> {"routing_num", "is_external"} \subseteq DOMAIN req
                  /\ req.is_external /\ req.routing_num = LOCAL_ROUTING
      [] k = 5 -> "label" \in DOMAIN req /\ ~LabelPatternOk(req.label)

Checks == 1..5

FailingChecks(req) == {k \in Checks : Fails(k, req)}

Least(S) == CHOOSE k \in S : \A j \in S : k <= j

ReasonOf(k) ==
    CASE k = 1 -> MissingField
      [] k = 2 -> InvalidAccountNumber
      [] k = 3 -> InvalidRoutingNumber
      [] k = 4 -> InvalidRoutingNumber
      [] k = 5 -> InvalidLabel

\* req is the self-reference of user u
SelfCandidate(u, req) ==
    /\ {"account_num", "routing_num"} \subseteq DOMAIN req
    /\ req.account_num = AcctOf(u)
    /\ req.routing_num = LOCAL_ROUTING

\* the requests of ReqSet, sanitized, that pass the field validator
ValidReqs == {CleanReq(raw) : raw \in {r \in ReqSet : FailingChecks(CleanReq(r)) = {}}}

(***************************************************************************)
(* C10: the field validator reports the first failing check in the order   *)
(* missing field, account number, routing number, external with the local  *)
(* routing number, label; and ok exactly when no check fails.              *)
(***************************************************************************)
C10_FirstFailingCheck ==
    resp.op = "validate" =>
        LET failing == FailingChecks(resp.req)
        IN  /\ (failing = {}) <=> (resp.msg = Ok)
            /\ failing # {} => resp.msg = ReasonOf(Least(failing))

\* an invalid account number together with an invalid label is reported as
\* an invalid account number
C10_Witness ==
    /\ resp.op = "validate"
    /\ {2, 5} \subseteq FailingChecks(resp.req)
    /\ 1 \notin FailingChecks(resp.req)
    /\ resp.msg = InvalidAccountNumber

(***************************************************************************)
(* C1: with add-contact run as one step, no two contacts of a username     *)
(* have the same account and routing number.                               *)
(***************************************************************************)
C1_UniqueAccount ==
    \A u \in Users : \A i, j \in RowsOf(u) :
        i # j => ~SamePair(store[i], store[j])

\* a second contact with a stored pair was refused, next to two contacts of
\* that user that were accepted
C1_Witness ==
    /\ resp.op = "add"
    /\ resp.status = 409
    /\ resp.msg = DuplicateAccount
    /\ Cardinality(RowsOf(resp.username)) = 2

(***************************************************************************)
(* C2: with add-contact run as one step, no two contacts of a username     *)
(* have the same label.                                                    *)
(***************************************************************************)
C2_UniqueLabel ==
    \A u \in Users : \A i, j \in RowsOf(u) :
        i # j => ~SameLabel(store[i], store[j])

C2_Witness ==
    /\ resp.op = "add"
    /\ resp.status = 409
    /\ resp.msg = DuplicateLabel
    /\ Cardinality(RowsOf(resp.username)) = 2


(***************************************************************************)
(* More vocabulary.                                                        *)
(***************************************************************************)
\* two contacts collide: same account and routing number, or same label
Collide(c, d) == SamePair(c, d) \/ SameLabel(c, d)

\* the step is the successful insert of the request r in flight
InsertOf(r) ==
    /\ inflight' = inflight (-) SetToBag({r})
    /\ Len(store') = Len(store) + 1

\* the table holds two colliding contacts of one username
HasDuplicate ==
    \E u \in Users : \E i, j \in RowsOf(u) : i < j /\ Collide(store[i], store[j])

(***************************************************************************)
(* C3: with the check and the insert of add-contact as separate steps,     *)
(* two requests of one user that collide can both pass the check before    *)
(* either inserts, and then both insert: whenever an insert adds a contact *)
(* that collides with a stored contact of the same user, the inserting     *)
(* request fetched its contacts before that stored contact was inserted    *)
(* (C3_Witness shows such a duplicate is reached).                         *)
(***************************************************************************)
C3_DuplicateByRace ==
    [][\A r \in BagToSet(inflight) :
          InsertOf(r) =>
              \A i \in RowsOf(r.adm.username) :
                  Collide(store[i], r.adm.req) => r.seen < i]_vars

\* both requests were answered with success and the table holds the
\* duplicate
C3_Witness ==
    /\ HasDuplicate
    /\ resp.op = "add"
    /\ resp.status = 201
    /\ Len(store) = 2

(***************************************************************************)
(* C4 as stated: whenever some contact of the list has the candidate's     *)
(* account and routing number, the check reports DuplicateAccount, also    *)
(* when an earlier contact has the candidate's label.                      *)
(***************************************************************************)
C4_AccountBeforeLabel ==
    \A u \in Users : \A c \in ValidReqs :
        LET cs == GetContacts(store, u)
        IN  (~SelfCandidate(u, c) /\ \E i \in 1..Len(cs) : SamePair(cs[i], c))
            => CheckContactAllowed(u, AcctOf(u), c, store, TRUE).result
                   = DuplicateAccount

(***************************************************************************)
(* C4 amended: the check reports the conflict of the first contact, in     *)
(* stored order, that has the candidate's account and routing number or    *)
(* the candidate's label: DuplicateAccount when that contact has the pair, *)
(* DuplicateLabel when it has only the label (also when a later contact    *)
(* has the pair); it passes exactly when no contact has either.            *)
(***************************************************************************)
C4_FirstConflictingContact ==
    \A u \in Users : \A c \in ValidReqs :
        ~SelfCandidate(u, c) =>
            LET cs == GetContacts(store, u)
                hits == {i \in 1..Len(cs) : Collide(cs[i], c)}
                got == CheckContactAllowed(u, AcctOf(u), c, store, TRUE).result
            IN  /\ hits = {} <=> got = Ok
                /\ hits # {} =>
                      got = IF SamePair(cs[Least(hits)], c)
                            THEN DuplicateAccount ELSE DuplicateLabel

\* a list whose first contact has only the candidate's label and whose
\* second contact has the candidate's pair: DuplicateLabel is reported
C4_Witness ==
    \E u \in Users : \E c \in ValidReqs :
        LET cs == GetContacts(store, u)
        IN  /\ ~SelfCandidate(u, c)
            /\ Len(cs) = 2
            /\ SameLabel(cs[1], c) /\ ~SamePair(cs[1], c)
            /\ SamePair(cs[2], c)
            /\ CheckContactAllowed(u, AcctOf(u), c, store, TRUE).result
                   = DuplicateLabel

(***************************************************************************)
(* C5 as stated: no stored contact is its owner's self-reference, and      *)
(* every add-contact request whose candidate is the caller's               *)
(* self-reference is answered conflict, SelfReference, with no store call. *)
(***************************************************************************)
NoSelfStored ==
    \A i \in 1..Len(store) : ~SelfCandidate(store[i].username, store[i])

C5_AlwaysSelfReference ==
    /\ NoSelfStored
    /\ (resp.op = "add" /\ SelfCandidate(resp.username, resp.req)) =>
           /\ resp.status = 409
           /\ resp.msg = SelfReference
           /\ resp.calls = <<>>

(***************************************************************************)
(* C5 amended: under any interleaving no stored contact is its owner's     *)
(* self-reference and no request with such a candidate gets past its       *)
(* checks; such a request is answered without any store call, with bad     *)
(* request when a field check fails and with conflict, SelfReference,      *)
(* otherwise (unauthorized, before the body is read, when the identity     *)
(* check fails).                                                           *)
(***************************************************************************)
C5_SelfNeverStored ==
    /\ NoSelfStored
    /\ \A r \in BagToSet(inflight) : ~SelfCandidate(r.adm.username, r.adm.req)
    /\ (resp.op = "add" /\ SelfCandidate(resp.username, resp.req)) =>
           /\ resp.calls = <<>>
           /\ resp.tokuser = resp.username
           /\ IF FailingChecks(resp.req) # {}
              THEN resp.status = 400
              ELSE resp.status = 409 /\ resp.msg = SelfReference
    /\ resp.status = 401 => resp.calls = <<>> /\ resp.req = NoReq

\* a self-reference refused while the table holds contacts and another
\* request is between its check and its insert
C5_Witness ==
    /\ resp.op = "add"
    /\ resp.msg = SelfReference
    /\ SelfCandidate(resp.username, resp.req)
    /\ Len(store) > 0
    /\ inflight # EmptyBag


(***************************************************************************)
(* C6: an add-contact request either succeeds, and the table is the table  *)
(* before it with one row appended that carries the authenticated username *)
(* and the candidate's four fields, or it is answered with an error and    *)
(* the table is unchanged.                                                 *)
(***************************************************************************)
C6_AllOrNothing ==
    [][resp'.op = "add" =>
          \/ /\ resp'.status = 201
             /\ resp'.tokuser = resp'.username
             /\ store' = Append(store,
                    [username |-> resp'.username,
                     label |-> resp'.req.label,
                     account_num |-> resp'.req.account_num,
                     routing_num |-> resp'.req.routing_num,
                     is_external |-> resp'.req.is_external])
          \/ /\ resp'.status \in {401, 400, 409, 500}
             /\ store' = store]_vars

\* a success that added an external contact for one user next to a contact
\* of the other user
C6_Witness ==
    /\ resp.op = "add"
    /\ resp.status = 201
    /\ Len(store) = 2
    /\ store[1].username # store[2].username
    /\ store[2].is_external

(***************************************************************************)
(* C7: the response of add-contact is decided by the first failing stage   *)
(* in the order identity, field validation, authorization check (the       *)
(* self-reference test, then the fetch, then the duplicate scan), insert;  *)
(* a failed store call always gives 500, and 201 is sent only after a      *)
(* successful fetch and a successful insert.                               *)
(***************************************************************************)
FetchFailed(r) == Len(r.calls) >= 1 /\ r.calls[1] = "fetch:error"

InsertFailed(r) == Len(r.calls) >= 2 /\ r.calls[2] = "insert:error"

ExpectedStatus(r, db) ==
    IF r.tokuser # r.username THEN 401
    ELSE IF FailingChecks(r.req) # {} THEN 400
    ELSE IF SelfCandidate(r.username, r.req) THEN 409
    ELSE IF FetchFailed(r) THEN 500
    ELSE IF \E i \in 1..Len(db) :
                db[i].username = r.username /\ Collide(db[i], r.req) THEN 409
    ELSE IF InsertFailed(r) THEN 500
    ELSE 201

C7_FirstFailingStage ==
    [][resp'.op = "add" =>
          /\ resp'.status = ExpectedStatus(resp', store)
          /\ resp'.status = 401 => resp'.msg = AuthDenied
          /\ resp'.status = 400 =>
                resp'.msg = ReasonOf(Least(FailingChecks(resp'.req)))
          /\ resp'.status = 409 =>
                resp'.msg \in {SelfReference, DuplicateAccount, DuplicateLabel}
          /\ (\E i \in 1..Len(resp'.calls) :
                 resp'.calls[i] \in {"fetch:error", "insert:error"})
                => resp'.status = 500
          /\ resp'.status = 201 <=> resp'.calls = <<"fetch:ok", "insert:ok">>
          /\ resp'.status = 201 => Len(store') = Len(store) + 1]_vars

\* a bad request whose candidate has the account and routing number of a
\* stored contact of the caller
C7_Witness ==
    /\ resp.op = "add"
    /\ resp.status = 400
    /\ {"account_num", "routing_num"} \subseteq DOMAIN resp.req
    /\ \E i \in RowsOf(resp.username) : SamePair(store[i], resp.req)

(***************************************************************************)
(* C8: every stored label has 1 to 29 characters, all of them letters,     *)
(* digits or spaces, the first not a space, and no request whose label has *)
(* 30 or more characters succeeds (29 is the size of the pattern's tail,   *)
(* LabelTailMax).                                                          *)
(***************************************************************************)
C8_LabelLength ==
    /\ \A i \in 1..Len(store) :
          LET l == store[i].label
          IN  /\ Len(l) \in 1..LabelTailMax
              /\ \A k \in 1..Len(l) : l[k] \in AlnumSpace
              /\ l[1] # " "
    /\ (resp.op = "add" /\ "label" \in DOMAIN resp.req
            /\ Len(resp.req.label) > LabelTailMax)
          => resp.status # 201

(***************************************************************************)
(* C9: under any interleaving, every stored contact that is external has a *)
(* routing number different from the local routing number, and so has      *)
(* every request that passed its checks.                                   *)
(***************************************************************************)
C9_ExternalNotLocal ==
    /\ \A i \in 1..Len(store) :
          store[i].is_external => store[i].routing_num # LOCAL_ROUTING
    /\ \A r \in BagToSet(inflight) :
          r.adm.req.is_external => r.adm.req.routing_num # LOCAL_ROUTING

\* an external candidate with the local routing number was refused while
\* the table holds an external contact
C9_Witness ==
    /\ resp.op = "add"
    /\ resp.status = 400
    /\ resp.msg = InvalidRoutingNumber
    /\ "is_external" \in DOMAIN resp.req
    /\ resp.req.is_external
    /\ resp.req.routing_num = LOCAL_ROUTING
    /\ \E i \in 1..Len(store) : store[i].is_external

====
